---- MODULE Spec2Model ----
(***************************************************************************)
(* The staged multiply/divide unit of python/multiplier.py (class multdiv) *)
(* as a state machine: one action per method call, the two normalisation   *)
(* loops of div_init one iteration per step, and the harness loops of      *)
(* test_mult / test_div as the caller.                                     *)
(*                                                                         *)
(* Python integers are unbounded.  They are represented here exactly, as   *)
(* little-endian sequences of IntBytes bytes in two's complement: the      *)
(* representation is exact for every value v with -2^(8*IntBytes-1) <= v   *)
(* < 2^(8*IntBytes-1), and every value the program computes on the         *)
(* operands below lies inside (-2^66, 2^66).                               *)
(***************************************************************************)
EXTENDS Integers, Sequences, FiniteSets, TLC

\* number of bytes of the representation of a Python integer
IntBytes == 9
\* iterations of a div_init normalisation loop the model follows
MaxNorm == 33
\* step calls the caller makes after a step has returned true
MaxOver == 2

Idx == 1..IntBytes

-----------------------------------------------------------------------------
(* Python integer arithmetic on the byte representation *)

\* the integer n, 0 <= n < 2^31
Num(n) ==
  [i \in Idx |-> CASE i = 1 -> n % 256
                   [] i = 2 -> (n \div 256) % 256
                   [] i = 3 -> (n \div 65536) % 256
                   [] i = 4 -> (n \div 16777216) % 256
                   [] OTHER -> 0]

IsNeg(x) == x[IntBytes] >= 128

\* x + y
RECURSIVE AddFrom(_, _, _, _)
AddFrom(x, y, i, c) ==
  IF i > IntBytes THEN <<>>
  ELSE LET t == x[i] + y[i] + c
       IN  <<t % 256>> \o AddFrom(x, y, i + 1, t \div 256)

Add(x, y) == AddFrom(x, y, 1, 0)

\* -x
Neg(x) == Add([i \in Idx |-> 255 - x[i]], Num(1))

\* x - y
Sub(x, y) == Add(x, Neg(y))

\* x << n
Shl(x, n) ==
  LET k == n \div 8
      s == n % 8
      b == [i \in Idx |-> IF i > k THEN x[i-k] ELSE 0]
  IN  [i \in Idx |-> ((b[i] * (2^s)) % 256)
                     + (IF i > 1 THEN (b[i-1] \div (2^(8-s))) ELSE 0)]

\* x >> n (Python's shift keeps the sign)
Shr(x, n) ==
  LET k == n \div 8
      s == n % 8
      fill == IF IsNeg(x) THEN 255 ELSE 0
      b == [i \in 1..IntBytes+1 |-> IF i + k <= IntBytes THEN x[i+k] ELSE fill]
  IN  [i \in Idx |-> (b[i] \div (2^s)) + ((b[i+1] % (2^s)) * (2^(8-s)))]

RECURSIVE AndBits(_, _, _)
AndBits(p, q, k) ==
  IF k = 0 \/ p = 0 \/ q = 0 THEN 0
  ELSE (p % 2) * (q % 2) + 2 * AndBits(p \div 2, q \div 2, k - 1)

\* x & y
And(x, y) ==
  [i \in Idx |-> IF y[i] = 255 THEN x[i] ELSE AndBits(x[i], y[i], 8)]

\* x < y
Less(x, y) == IsNeg(Sub(x, y))

\* a 32-bit literal from its two 16-bit halves
Word(hi, lo) == Add(Shl(Num(hi), 16), Num(lo))

-----------------------------------------------------------------------------
(* module constants, multiplier.py lines 3-6 *)

sign_bit == Shl(Num(1), 31)
mask64 == Add(Shl(Word(\Hffff, \Hffff), 32), Word(\Hffff, \Hffff))
mask32 == Word(\Hffff, \Hffff)
mask31 == Word(\H7fff, \Hffff)

Zero == Num(0)

-----------------------------------------------------------------------------
(* multdiv.combinatorial, lines 13-38 *)

\* mux_0123 with the 34-bit adder of line 19 fed stage1_2 twice
mux_0123_adder_2_2(sel0123, areg) ==
  LET stage1_0 == Zero
      stage1_1 == areg
      stage1_2 == Shl(areg, 1)
      stage1_3 == Add(stage1_2, stage1_2)
  IN  CASE sel0123 = Num(0) -> stage1_0
        [] sel0123 = Num(1) -> stage1_1
        [] sel0123 = Num(2) -> stage1_2
        [] sel0123 = Num(3) -> stage1_3

\* lines 23-26: the multiplexer of 0, 1x, 2x, 3x areg
mux_0123(sel0123, areg) ==
  LET stage1_0 == Zero
      stage1_1 == areg
      stage1_2 == Shl(areg, 1)
      stage1_3 == Add(stage1_2, stage1_1)
  IN  CASE sel0123 = Num(0) -> stage1_0
        [] sel0123 = Num(1) -> stage1_1
        [] sel0123 = Num(2) -> stage1_2
        [] sel0123 = Num(3) -> stage1_3

\* mux_048c with the 4x and 8x inputs wired to each other's select
mux_048c_8_before_4(sel048c, areg) ==
  LET stage1_0 == Zero
      stage1_1 == areg
      stage1_2 == Shl(areg, 1)
      stage1_3 == Add(stage1_2, stage1_1)
      stage1_4 == Shl(stage1_1, 2)
      stage1_8 == Shl(stage1_2, 2)
      stage1_c == Shl(stage1_3, 2)
  IN  CASE sel048c = Num(0) -> stage1_0
        [] sel048c = Num(1) -> stage1_8
        [] sel048c = Num(2) -> stage1_4
        [] sel048c = Num(3) -> stage1_c

\* lines 27-30: the multiplexer of 0, 4x, 8x, 12x areg
mux_048c(sel048c, areg) ==
  LET stage1_0 == Zero
      stage1_1 == areg
      stage1_2 == Shl(areg, 1)
      stage1_3 == Add(stage1_2, stage1_1)
      stage1_4 == Shl(stage1_1, 2)
      stage1_8 == Shl(stage1_2, 2)
      stage1_c == Shl(stage1_3, 2)
  IN  CASE sel048c = Num(0) -> stage1_0
        [] sel048c = Num(1) -> stage1_4
        [] sel048c = Num(2) -> stage1_8
        [] sel048c = Num(3) -> stage1_c

\* lines 14-31: the 36-bit sum of the two selected partial products
stage2(mult4, areg) ==
  LET sel0123 == And(mult4, Num(3))
      sel048c == And(Shr(mult4, 2), Num(3))
  IN  Add(mux_0123(sel0123, areg), mux_048c(sel048c, areg))

\* combinatorial taking the shifted sum from the accumulator when subtracting
combinatorial_acc_minus_sum(mult4, areg, subtract_acc, acc, shift) ==
  IF subtract_acc
  THEN And(Sub(acc, Shl(stage2(mult4, areg), shift)), mask64)
  ELSE And(Add(Shl(stage2(mult4, areg), shift), acc), mask64)

\* lines 13-38
combinatorial(mult4, areg, subtract_acc, acc, shift) ==
  IF subtract_acc
  THEN And(Sub(Shl(stage2(mult4, areg), shift), acc), mask64)
  ELSE And(Add(Shl(stage2(mult4, areg), shift), acc), mask64)

-----------------------------------------------------------------------------
(* multdiv.mul_init, lines 53-67, on its arguments *)

\* mul_init_acc_in without the sign test of line 59
mul_init_acc_in_no_sign_test(a, b, sa, sb) ==
  IF sa
  THEN IF sb THEN And(Shl(And(b, mask32), 32), Shl(mask31, 32))
             ELSE Shl(And(b, mask32), 32)
  ELSE Zero

\* lines 57, 59-61
mul_init_acc_in(a, b, sa, sb) ==
  IF sa /\ And(a, sign_bit) # Zero
  THEN IF sb THEN And(Shl(And(b, mask32), 32), Shl(mask31, 32))
             ELSE Shl(And(b, mask32), 32)
  ELSE Zero

\* mul_init_add_in without the mask of line 64
mul_init_add_in_no_mask31(a, b, sa, sb) ==
  IF sb /\ And(b, sign_bit) # Zero
  THEN And(a, mask32)
  ELSE Zero

\* lines 58, 62-64
mul_init_add_in(a, b, sa, sb) ==
  IF sb /\ And(b, sign_bit) # Zero
  THEN IF sa THEN And(And(a, mask32), mask31)
             ELSE And(a, mask32)
  ELSE Zero

\* lines 65-66
mul_init_accumulator(a, b, sa, sb) ==
  And(combinatorial(Num(1), mul_init_add_in(a, b, sa, sb), FALSE,
                    mul_init_acc_in(a, b, sa, sb), 32), mask64)

(* multdiv.mul_step, lines 82-91, on the registers *)

\* mul_step_subtract_acc with every step adding
mul_step_subtract_acc_never(stg) == FALSE

\* mul_step_subtract_acc with every step subtracting
mul_step_subtract_acc_always(stg) == TRUE

\* line 85
mul_step_subtract_acc(stg) == stg = 0

\* mul_step_shift without the factor of 4
mul_step_shift_by_stage(stg) == stg

\* line 87
mul_step_shift(stg) == stg * 4

\* lines 83-87
mul_step_next_acc(mpr, mpd, stg, acc) ==
  combinatorial(And(mpr, Num(15)), mpd, mul_step_subtract_acc(stg), acc,
                mul_step_shift(stg))

\* mul_step_multiplier consuming 2 bits of the multiplier a step
mul_step_multiplier_shift_2(mpr) == Shr(mpr, 2)

\* line 90
mul_step_multiplier(mpr) == Shr(mpr, 4)

\* line 91
mul_step_return(mpr) == mpr = Zero

-----------------------------------------------------------------------------
(* multdiv.div_init, lines 68-81, on its arguments and the registers *)

\* div_init_divisor dividing magnitudes when signed is asked for
div_init_divisor_magnitude(b, signed) ==
  IF signed /\ And(b, sign_bit) # Zero THEN And(Neg(b), mask32)
  ELSE And(b, mask32)

\* line 69
div_init_divisor(b, signed) == And(b, mask32)

\* line 71
div_init_accumulator(a, signed) == Shl(And(a, mask32), 32)

\* div_init_divisor_loop leaving the loop on a zero divisor
div_init_divisor_loop_nonzero(dvr) == And(dvr, sign_bit) = Zero /\ dvr # Zero

\* line 72: the condition of the first loop
div_init_divisor_loop(dvr) == And(dvr, sign_bit) = Zero

\* line 74
div_init_divisor_stage(stg) == stg + 1

\* line 76: the condition of the second loop
div_init_accumulator_loop(acc) == And(acc, Shl(sign_bit, 32)) = Zero

\* div_init_accumulator_stage counting up as the first loop does
div_init_accumulator_stage_up(stg) == stg + 1

\* line 78
div_init_accumulator_stage(stg) == stg - 1

-----------------------------------------------------------------------------
(* multdiv.div_step, lines 92-104, on the registers *)

\* lines 93-97
div_step_next_acc(acc, dvr) == combinatorial(Num(1), dvr, TRUE, acc, 32)

\* line 98
div_step_condition(next_acc, stg) == ~IsNeg(next_acc) /\ stg >= 0

\* lines 98-101
div_step_accumulator(acc, dvr, stg) ==
  LET next_acc == div_step_next_acc(acc, dvr)
  IN  IF div_step_condition(next_acc, stg)
      THEN Add(Neg(next_acc), Shl(Num(1), stg))
      ELSE acc

\* line 102
div_step_divisor(dvr) == Shr(dvr, 1)

\* div_step_stage counting down by 2
div_step_stage_by_2(stg) == stg - 2

\* line 103
div_step_stage(stg) == stg - 1

\* div_step_return reporting done one step early
div_step_return_at_0(stg) == stg <= 0

\* line 104
div_step_return(stg) == stg < 0

\* multdiv.div_remainder, lines 105-106
div_remainder(acc) == And(Shr(acc, 32), mask32)

\* multdiv.div_result, lines 107-108
div_result(acc) == And(acc, mask32)

\* lines 105-108 as the methods are called, with the arguments they are given
div_remainder_call(acc, a, b, signed) == div_remainder(acc)

div_result_call(acc, a, b, signed) == div_result(acc)

-----------------------------------------------------------------------------
(* the operands the callers pass: the vectors of lines 154-169, their     *)
(* negations (lines 115-118 pass negative Python integers) and the edges  *)
(* of the 32-bit range                                                     *)
Operands ==
  { Num(0), Num(1), Num(4), Num(5),
    Word(\H4000, 0), Word(\H7fff, \Hffff), Word(\H8000, 0), Word(\Hffff, \Hffff),
    Word(\H1234, \H5670), Word(\Hdead, \Hbeef), Word(\H89ab, \Hcdef),
    Neg(Num(4)), Neg(Num(5)) }

-----------------------------------------------------------------------------
VARIABLES
  accumulator,   \* self.accumulator
  multiplier,    \* self.multiplier
  multiplicand,  \* self.multiplicand
  divisor,       \* self.divisor; NoAttr until div_init has set it
  stage,         \* self.stage
  pc,            \* where the caller is: "new", "mul", "norm_divisor",
                 \* "norm_accumulator", "div"
  call,          \* the arguments of the init call in progress
  nsteps,        \* step calls made since the init call
  ret,           \* what the latest step call returned
  first_done,    \* the number of the first step call that returned true, or 0
  init_stage,    \* self.stage when div_init returned
  init_accumulator, \* self.accumulator when the init call returned
  before,        \* the registers when the latest step call was made
  next_acc,      \* the local next_acc of the latest step call, as lines 83-87
                 \* and 93-97 compute it
  flipped,       \* the registers of a second instance given the same div_init
                 \* call with the signed flag negated, and stepped alike
  comb           \* a call of combinatorial on its own: arguments and result

vars == <<accumulator, multiplier, multiplicand, divisor, stage, pc, call,
          nsteps, ret, first_done, init_stage, init_accumulator, before,
          next_acc, flipped, comb>>

NoAttr == <<>>

NoBefore == [accumulator |-> Zero, multiplier |-> Zero, multiplicand |-> Zero,
             divisor |-> NoAttr, stage |-> 0]

NoFlipped == [accumulator |-> Zero, divisor |-> NoAttr, stage |-> 0,
              pc |-> "new", ret |-> FALSE]

NoComb == [applied |-> FALSE, mult4 |-> Zero, areg |-> Zero,
           subtract_acc |-> FALSE, acc |-> Zero, shift |-> 0,
           stage2 |-> Zero, result |-> Zero]

\* the registers as a step call finds them
Registers ==
  [accumulator |-> accumulator, multiplier |-> multiplier,
   multiplicand |-> multiplicand, divisor |-> divisor, stage |-> stage]

\* one move of the second instance: an iteration of a loop of div_init, lines
\* 72-81, or a div_step call, lines 92-104
FlippedStep(f) ==
  CASE f.pc = "norm_divisor" ->
         IF div_init_divisor_loop(f.divisor)
         THEN [f EXCEPT !.divisor = Shl(f.divisor, 1),
                        !.stage = div_init_divisor_stage(f.stage)]
         ELSE [f EXCEPT !.pc = "norm_accumulator"]
    [] f.pc = "norm_accumulator" ->
         IF div_init_accumulator_loop(f.accumulator)
         THEN [f EXCEPT !.accumulator = Shl(f.accumulator, 1),
                        !.stage = div_init_accumulator_stage(f.stage)]
         ELSE [f EXCEPT !.pc = "div"]
    [] f.pc = "div" ->
         [f EXCEPT !.accumulator = div_step_accumulator(f.accumulator, f.divisor, f.stage),
                   !.divisor = div_step_divisor(f.divisor),
                   !.stage = div_step_stage(f.stage),
                   !.ret = div_step_return(div_step_stage(f.stage))]

NoCall == [op |-> "none", a |-> Zero, b |-> Zero, sa |-> FALSE, sb |-> FALSE,
           signed |-> FALSE]

\* multdiv.__init__, lines 8-12
Init ==
  /\ accumulator = Zero
  /\ multiplier = Zero
  /\ multiplicand = Zero
  /\ divisor = NoAttr
  /\ stage = 0
  /\ pc = "new"
  /\ call = NoCall
  /\ nsteps = 0
  /\ ret = FALSE
  /\ first_done = 0
  /\ init_stage = 0
  /\ init_accumulator = Zero
  /\ before = NoBefore
  /\ next_acc = Zero
  /\ flipped = NoFlipped
  /\ comb = NoComb

\* x = multdiv(), lines 119 and 141: the caller takes a fresh instance once
\* the step loop of the previous one has ended
construct ==
  /\ pc \in {"mul", "div"}
  /\ ret
  /\ accumulator' = Zero
  /\ multiplier' = Zero
  /\ multiplicand' = Zero
  /\ divisor' = NoAttr
  /\ stage' = 0
  /\ pc' = "new"
  /\ call' = NoCall
  /\ nsteps' = 0
  /\ ret' = FALSE
  /\ first_done' = 0
  /\ init_stage' = 0
  /\ init_accumulator' = Zero
  /\ before' = NoBefore
  /\ next_acc' = Zero
  /\ flipped' = NoFlipped
  /\ UNCHANGED comb

\* x.mul_init(a, b, sa, sb), lines 53-67
mul_init ==
  \E a \in Operands, b \in Operands, sa \in BOOLEAN, sb \in BOOLEAN :
    /\ pc = "new"
    /\ multiplier' = And(a, mask32)
    /\ multiplicand' = And(b, mask32)
    /\ stage' = 0
    /\ accumulator' = mul_init_accumulator(a, b, sa, sb)
    /\ pc' = "mul"
    /\ call' = [op |-> "mul", a |-> a, b |-> b, sa |-> sa, sb |-> sb,
                signed |-> FALSE]
    /\ init_accumulator' = accumulator'
    /\ UNCHANGED <<divisor, nsteps, ret, first_done, init_stage, before,
                   next_acc, flipped, comb>>

\* the caller's step loop, lines 121 and 143, goes on until a step returns
\* true; the model lets it make MaxOver calls more
MayStep == ~ret \/ nsteps < first_done + MaxOver

\* x.mul_step(), lines 82-91
mul_step ==
  /\ pc = "mul"
  /\ MayStep
  /\ next_acc' = mul_step_next_acc(multiplier, multiplicand, stage, accumulator)
  /\ accumulator' = next_acc'
  /\ before' = Registers
  /\ stage' = stage + 1
  /\ multiplier' = mul_step_multiplier(multiplier)
  /\ ret' = mul_step_return(multiplier')
  /\ nsteps' = nsteps + 1
  /\ first_done' = IF first_done = 0 /\ ret' THEN nsteps' ELSE first_done
  /\ UNCHANGED <<multiplicand, divisor, pc, call, init_stage, init_accumulator,
                 flipped, comb>>

\* x.div_init(a, b, signed), lines 68-71: up to the first loop
div_init ==
  \E a \in Operands, b \in Operands, signed \in BOOLEAN :
    /\ pc = "new"
    /\ divisor' = div_init_divisor(b, signed)
    /\ stage' = 0
    /\ accumulator' = div_init_accumulator(a, signed)
    /\ flipped' = [accumulator |-> div_init_accumulator(a, ~signed),
                   divisor |-> div_init_divisor(b, ~signed),
                   stage |-> 0, pc |-> "norm_divisor", ret |-> FALSE]
    /\ pc' = "norm_divisor"
    /\ call' = [op |-> "div", a |-> a, b |-> b, sa |-> FALSE, sb |-> FALSE,
                signed |-> signed]
    /\ UNCHANGED <<multiplier, multiplicand, nsteps, ret, first_done, init_stage,
                   init_accumulator, before, next_acc, comb>>

\* lines 72-75: one evaluation of the loop condition, and the body if it holds
div_init_norm_divisor ==
  /\ pc = "norm_divisor"
  /\ IF div_init_divisor_loop(divisor)
     THEN /\ stage < MaxNorm
          /\ divisor' = Shl(divisor, 1)
          /\ stage' = div_init_divisor_stage(stage)
          /\ UNCHANGED pc
     ELSE /\ pc' = "norm_accumulator"
          /\ UNCHANGED <<divisor, stage>>
  /\ flipped' = FlippedStep(flipped)
  /\ UNCHANGED <<accumulator, multiplier, multiplicand, call, nsteps, ret,
                 first_done, init_stage, init_accumulator, before, next_acc, comb>>

\* lines 76-81: one evaluation of the loop condition, and the body if it
\* holds; div_init returns when it does not
div_init_norm_accumulator ==
  /\ pc = "norm_accumulator"
  /\ IF div_init_accumulator_loop(accumulator)
     THEN /\ stage > -MaxNorm
          /\ accumulator' = Shl(accumulator, 1)
          /\ stage' = div_init_accumulator_stage(stage)
          /\ UNCHANGED <<pc, init_stage, init_accumulator>>
     ELSE /\ pc' = "div"
          /\ init_stage' = stage
          /\ init_accumulator' = accumulator
          /\ UNCHANGED <<accumulator, stage>>
  /\ flipped' = FlippedStep(flipped)
  /\ UNCHANGED <<multiplier, multiplicand, divisor, call, nsteps, ret, first_done,
                 before, next_acc, comb>>

\* x.div_step(), lines 92-104
div_step ==
  /\ pc = "div"
  /\ MayStep
  /\ next_acc' = div_step_next_acc(accumulator, divisor)
  /\ accumulator' = div_step_accumulator(accumulator, divisor, stage)
  /\ before' = Registers
  /\ flipped' = FlippedStep(flipped)
  /\ divisor' = div_step_divisor(divisor)
  /\ stage' = div_step_stage(stage)
  /\ ret' = div_step_return(stage')
  /\ nsteps' = nsteps + 1
  /\ first_done' = IF first_done = 0 /\ ret' THEN nsteps' ELSE first_done
  /\ UNCHANGED <<multiplier, multiplicand, pc, call, init_stage, init_accumulator,
                 comb>>

Next ==
  \/ construct
  \/ mul_init
  \/ mul_step
  \/ div_init
  \/ div_init_norm_divisor
  \/ div_init_norm_accumulator
  \/ div_step

Spec == Init /\ [][Next]_vars

-----------------------------------------------------------------------------
(* combinatorial, lines 13-38, called on its own.  It reads no register, so
   the instance stays as constructed. *)

\* every value of a 4-bit multiplier digit (mult4 = self.multiplier & 0xf,
\* line 83; 1 at lines 66 and 93)
Mult4s == { Num(m) : m \in 0..15 }

\* the 32-bit register values passed as areg (lines 66, 84, 94)
Aregs == { And(x, mask32) : x \in Operands }

\* accumulators passed as acc: zero, a partial product, the top bit alone, all
\* ones, and a negative integer as div_step leaves one (line 99)
Accs ==
  { Zero, Shl(Num(5), 32), Shl(sign_bit, 32), mask64,
    Add(Neg(Shl(Num(1), 61)), Num(1)) }

\* shift = self.stage*4 in the steps of a multiply (line 87), 32 at lines 66
\* and 97
Shifts == { 4 * k : k \in 0..8 }

InitComb == Init

comb_apply ==
  /\ ~comb.applied
  /\ \E mult4 \in Mult4s, areg \in Aregs, subtract_acc \in BOOLEAN,
        acc \in Accs, shift \in Shifts :
       comb' = [applied |-> TRUE, mult4 |-> mult4, areg |-> areg,
                subtract_acc |-> subtract_acc, acc |-> acc, shift |-> shift,
                stage2 |-> stage2(mult4, areg),
                result |-> combinatorial(mult4, areg, subtract_acc, acc, shift)]
  /\ UNCHANGED <<accumulator, multiplier, multiplicand, divisor, stage, pc, call,
                 nsteps, ret, first_done, init_stage, init_accumulator, before,
                 next_acc, flipped>>

\* the caller has taken the result and may call again
comb_return ==
  /\ comb.applied
  /\ comb' = NoComb
  /\ UNCHANGED <<accumulator, multiplier, multiplicand, divisor, stage, pc, call,
                 nsteps, ret, first_done, init_stage, init_accumulator, before,
                 next_acc, flipped>>

NextComb ==
  \/ comb_apply
  \/ comb_return

SpecComb == InitComb /\ [][NextComb]_vars

-----------------------------------------------------------------------------
(* reference arithmetic the properties are stated with *)

\* an operand read as an unsigned 32-bit value
unsigned32(a) == And(a, mask32)

\* an operand read as a two's-complement signed 32-bit value
signed32(a) ==
  IF unsigned32(a)[4] >= 128 THEN Sub(unsigned32(a), Shl(Num(1), 32))
  ELSE unsigned32(a)

RECURSIVE TimesByteFrom(_, _, _, _)
TimesByteFrom(x, d, i, c) ==
  IF i > IntBytes THEN <<>>
  ELSE LET t == x[i] * d + c
       IN  <<t % 256>> \o TimesByteFrom(x, d, i + 1, t \div 256)

RECURSIVE ProductFrom(_, _, _)
ProductFrom(x, y, j) ==
  IF j > IntBytes THEN Zero
  ELSE Add(Shl(TimesByteFrom(x, y[j], 1, 0), 8 * (j - 1)), ProductFrom(x, y, j + 1))

Abs(x) == IF IsNeg(x) THEN Neg(x) ELSE x

\* x * y, by long multiplication of the magnitudes
Times(x, y) ==
  LET p == ProductFrom(Abs(x), Abs(y), 1)
  IN  IF IsNeg(x) # IsNeg(y) THEN Neg(p) ELSE p

\* x mod 2^64
Mod64(x) == [i \in Idx |-> IF i <= 8 THEN x[i] ELSE 0]

\* the product mul_init(a, b, sa, sb) asks for, mod 2^64
Expected(a, b, sa, sb) ==
  Mod64(Times(IF sa THEN signed32(a) ELSE unsigned32(a),
              IF sb THEN signed32(b) ELSE unsigned32(b)))

\* a multiply has just completed: the latest mul_step was the first to return true
MulCompleted == pc = "mul" /\ ret /\ nsteps = first_done

-----------------------------------------------------------------------------
\* C1: an unsigned multiply, mul_init(a, b, False, False) stepped until
\* mul_step first returns true, leaves accumulator = (a * b) mod 2^64 with
\* a and b read as unsigned 32-bit values.
C1_UnsignedProduct ==
  (MulCompleted /\ ~call.sa /\ ~call.sb)
    => accumulator = Mod64(Times(unsigned32(call.a), unsigned32(call.b)))

\* multiply(0x40000000, 5) unsigned has completed with 0x140000000
C1_Witness ==
  /\ MulCompleted /\ ~call.sa /\ ~call.sb
  /\ call.a = Word(\H4000, 0) /\ call.b = Num(5)
  /\ accumulator = Add(Shl(Num(1), 32), Word(\H4000, 0))

\* C2: a signed multiply, mul_init(a, b, True, True) stepped until mul_step
\* first returns true, leaves accumulator = the 64-bit two's-complement
\* encoding of signed(a) * signed(b), for all four sign combinations.
C2_SignedProduct ==
  (MulCompleted /\ call.sa /\ call.sb)
    => accumulator = Mod64(Times(signed32(call.a), signed32(call.b)))

\* (-4) * 5 signed has completed with 0xffffffffffffffec
C2_Witness ==
  /\ MulCompleted /\ call.sa /\ call.sb
  /\ call.a = Neg(Num(4)) /\ call.b = Num(5)
  /\ accumulator = Mod64(Neg(Num(20)))

\* C3: mixed-mode multiply: mul_init(a, b, True, False) run to completion
\* leaves (signed(a) * unsigned(b)) mod 2^64 and mul_init(a, b, False, True)
\* leaves (unsigned(a) * signed(b)) mod 2^64.
C3_MixedProduct ==
  /\ (MulCompleted /\ call.sa /\ ~call.sb)
       => accumulator = Mod64(Times(signed32(call.a), unsigned32(call.b)))
  /\ (MulCompleted /\ ~call.sa /\ call.sb)
       => accumulator = Mod64(Times(unsigned32(call.a), signed32(call.b)))

\* 0x89abcdef (negative when signed) * 0xfffffffb (unsigned) has completed
\* with 0x89abcdf14fa4fa55
C3_Witness ==
  /\ MulCompleted /\ call.sa /\ ~call.sb
  /\ call.a = Word(\H89ab, \Hcdef) /\ call.b = Neg(Num(5))
  /\ accumulator = Add(Shl(Word(\H89ab, \Hcdf1), 32), Word(\H4fa4, \Hfa55))

-----------------------------------------------------------------------------
(* reference division, by long division on the bits of a *)

Bit(x, i) == (x[(i \div 8) + 1] \div (2^(i % 8))) % 2

RECURSIVE DivModFrom(_, _, _, _, _)
DivModFrom(a, b, i, q, r) ==
  IF i < 0 THEN [q |-> q, r |-> r]
  ELSE LET r2 == Add(Shl(r, 1), Num(Bit(a, i)))
       IN  IF Less(r2, b)
           THEN DivModFrom(a, b, i - 1, q, r2)
           ELSE DivModFrom(a, b, i - 1, Add(q, Shl(Num(1), i)), Sub(r2, b))

\* floor(a / b) and a mod b for 0 <= a < 2^32, 0 < b
Quotient(a, b) == DivModFrom(a, b, 31, Zero, Zero).q
Remainder(a, b) == DivModFrom(a, b, 31, Zero, Zero).r

\* a divide has just completed: the latest div_step was the first to return true
DivCompleted == pc = "div" /\ ret /\ nsteps = first_done

Max(m, n) == IF m >= n THEN m ELSE n

\* the number of hexadecimal digits of x, 0 <= x < 2^32 (0 for x = 0)
HexDigits(x) ==
  IF x[4] >= 16 THEN 8 ELSE IF x[4] > 0 THEN 7
  ELSE IF x[3] >= 16 THEN 6 ELSE IF x[3] > 0 THEN 5
  ELSE IF x[2] >= 16 THEN 4 ELSE IF x[2] > 0 THEN 3
  ELSE IF x[1] >= 16 THEN 2 ELSE IF x[1] > 0 THEN 1 ELSE 0

-----------------------------------------------------------------------------
\* C4: for every 32-bit a and nonzero 32-bit b, div_init(a, b) stepped until
\* div_step first returns true yields div_result() = floor(a / b), unsigned.
C4_Quotient ==
  (DivCompleted /\ unsigned32(call.b) # Zero)
    => div_result(accumulator) = Quotient(unsigned32(call.a), unsigned32(call.b))

\* C5: for every 32-bit a and nonzero 32-bit b, div_init(a, b) stepped until
\* div_step first returns true yields div_remainder() = a mod b, unsigned.
C5_Remainder ==
  (DivCompleted /\ unsigned32(call.b) # Zero)
    => div_remainder(accumulator) = Remainder(unsigned32(call.a), unsigned32(call.b))

\* C6: in every reachable state each register holds a value inside its
\* declared width: 0 <= accumulator < 2^64, and multiplier, multiplicand and
\* divisor in 0 .. 2^32 - 1.
C6_RegistersInRange ==
  /\ accumulator = And(accumulator, mask64)
  /\ multiplier = And(multiplier, mask32)
  /\ multiplicand = And(multiplicand, mask32)
  /\ divisor # NoAttr => divisor = And(divisor, mask32)

\* C7: for every 32-bit a and every nonzero 32-bit b, div_init(a, b) returns
\* and the div_step loop that follows reports done after finitely many steps.
\* A normalisation loop shifts a register holding a 32-bit value left until
\* its top bit is set: it ends within 31 iterations or the register is 0 and
\* it never ends.  So a divide with a nonzero divisor completes exactly when
\* the first loop has counted stage up to 31 at most, the second has counted
\* it down to -31 at least, and the step loop is over after 32 calls.
C7_DivideCompletes ==
  (call.op = "div" /\ unsigned32(call.b) # Zero)
    => /\ pc = "norm_divisor" => stage \in 0..31
       /\ pc = "norm_accumulator" => stage \in -31..31
       /\ pc = "div" => ret \/ nsteps <= 31

\* C8 as stated: after mul_init the first 7 calls of mul_step return false
\* and the 8th returns true.
C8_ExactlyEightSteps ==
  pc = "mul" => /\ nsteps \in 1..7 => ~ret
                /\ nsteps = 8 => ret

\* C8 as amended: after mul_init, mul_step returns true from call number
\* max(1, d) on and false before it, d being the number of hexadecimal digits
\* of a mod 2^32; so a multiply completes in at most 8 calls, and in exactly 8
\* only when a mod 2^32 >= 2^28.
C8_StepsAreHexDigits ==
  (pc = "mul" /\ nsteps >= 1)
    => /\ ret <=> nsteps >= Max(1, HexDigits(unsigned32(call.a)))
       /\ first_done <= 8

\* multiply(4, 5) has completed at its first mul_step
C8_Witness ==
  /\ MulCompleted /\ first_done = 1
  /\ call.a = Num(4) /\ call.b = Num(5) /\ accumulator = Num(20)

\* C9 as stated: div_step first returns true on call number initial_stage + 1.
C9_InitStagePlusOneSteps ==
  (pc = "div" /\ first_done # 0) => first_done = init_stage + 1

\* C9 as amended: after div_init has returned, div_step returns true from
\* call number max(1, initial_stage + 1) on and false before it; a divide
\* whose initial stage is negative completes at its first div_step.
C9_StepsAreInitStage ==
  (pc = "div" /\ nsteps >= 1) => (ret <=> nsteps >= Max(1, init_stage + 1))

\* divide(0xffffffff, 4) has completed at call 30, from initial stage 29
C9_Witness ==
  /\ DivCompleted /\ init_stage = 29 /\ first_done = 30
  /\ unsigned32(call.a) = mask32 /\ call.b = Num(4)

\* C10 as stated: the stage counter is non-negative when div_init returns,
\* decreases by exactly 1 on every div_step, and is -1 when div_step first
\* returns true.
C10_StageNonNegativeToMinusOne ==
  pc = "div" => /\ init_stage >= 0
                /\ stage = init_stage - nsteps
                /\ (nsteps >= 1 /\ ~ret) => stage >= 0
                /\ DivCompleted => stage = -1

\* C10 as amended: the stage counter when div_init returns may be negative;
\* it decreases by exactly 1 on every div_step; div_step returns true exactly
\* when the counter it leaves is negative, which is the step that brings it
\* to -1 when the initial stage is non-negative, and the first step, leaving
\* initial_stage - 1 < -1, when it is negative.
C10_StageCountsDown ==
  pc = "div" => /\ stage = init_stage - nsteps
                /\ nsteps >= 1 => (ret <=> stage < 0)
                /\ (DivCompleted /\ init_stage >= 0) => stage = -1
                /\ (DivCompleted /\ init_stage < 0)
                     => nsteps = 1 /\ stage = init_stage - 1

\* divide(4, 0x40000000) has completed at its first div_step with the stage
\* counter at -29
C10_Witness ==
  /\ DivCompleted /\ init_stage = -28 /\ stage = -29 /\ nsteps = 1
  /\ call.a = Num(4) /\ call.b = Word(\H4000, 0)

-----------------------------------------------------------------------------
(* C12: the signed argument of the divide has no effect.  A second instance
   given the same div_init call with the flag negated holds the same divisor,
   accumulator and stage when the call has stored them, in every iteration of
   the two loops and after every div_step, its div_step calls return the same
   done flag, and div_result and div_remainder return the same values for both
   values of the flag. *)
C12_SignedHasNoEffect ==
  call.op = "div" =>
    /\ flipped.divisor = divisor
    /\ flipped.accumulator = accumulator
    /\ flipped.stage = stage
    /\ flipped.pc = pc
    /\ flipped.ret = ret
    /\ div_result_call(flipped.accumulator, call.a, call.b, ~call.signed)
         = div_result_call(accumulator, call.a, call.b, call.signed)
    /\ div_remainder_call(flipped.accumulator, call.a, call.b, ~call.signed)
         = div_remainder_call(accumulator, call.a, call.b, call.signed)

\* a signed divide of -5 by 4, run to its done, beside the unsigned one
C12_Witness ==
  /\ DivCompleted
  /\ call.signed
  /\ call.a = Neg(Num(5))
  /\ call.b = Num(4)
  /\ flipped.ret
  /\ nsteps = 30

-----------------------------------------------------------------------------
(* C13: the two multiplexers of combinatorial realise a 4-bit by 32-bit
   multiply.  For every mult4 in 0..15 and every areg the sum of the two
   multiplexer outputs is mult4 * areg, and with subtract_acc false the value
   returned is ((mult4 * areg) * 2^shift + acc) mod 2^64. *)
C13_MuxesMultiply ==
  comb.applied =>
    /\ comb.stage2 = Times(comb.mult4, comb.areg)
    /\ ~comb.subtract_acc =>
         comb.result = Mod64(Add(Shl(Times(comb.mult4, comb.areg), comb.shift),
                                 comb.acc))

\* 15 * 0xffffffff shifted by 28 and added to 2^64 - 1 gives
\* 0xefffffff0fffffff
C13_Witness ==
  /\ comb.applied /\ ~comb.subtract_acc
  /\ comb.mult4 = Num(15) /\ comb.areg = mask32
  /\ comb.shift = 28 /\ comb.acc = mask64
  /\ comb.stage2 = Add(Shl(Num(14), 32), Word(\Hffff, \Hfff1))
  /\ comb.result = Add(Shl(Word(\Hefff, \Hffff), 32), Word(\H0fff, \Hffff))

-----------------------------------------------------------------------------
(* C14, as the specification states it: with the subtract flag set the
   combinational stage takes the shifted sum from the accumulator, so that
   the trial value of a div_step is (accumulator - divisor * 2^32) mod 2^64,
   accumulator and divisor being the registers the step found. *)
C14_TrialIsAccumulatorMinusDivisor ==
  (pc = "div" /\ nsteps >= 1) =>
    next_acc = Mod64(Sub(before.accumulator, Shl(before.divisor, 32)))

(* C14, amended: with the subtract flag set the combinational stage takes the
   accumulator from the shifted sum, so that the trial value of a div_step is
   (divisor * 2^32 - accumulator) mod 2^64. *)
C14_TrialIsDivisorMinusAccumulator ==
  (pc = "div" /\ nsteps >= 1) =>
    next_acc = Mod64(Sub(Shl(before.divisor, 32), before.accumulator))

\* the first div_step of 4 / 5: 0xa000000000000000 - 0x8000000000000000
C14_Witness ==
  /\ pc = "div" /\ nsteps = 1
  /\ call.a = Num(4) /\ call.b = Num(5)
  /\ before.divisor = Shl(Num(5), 29)
  /\ before.accumulator = Shl(Num(1), 63)
  /\ next_acc = Shl(Num(1), 61)

-----------------------------------------------------------------------------
(* C15: div_step changes the accumulator only when it sets a quotient bit.
   Whenever the trial value of the step has bit 63 set (it is negative read
   as a 64-bit signed value), or the stage the step found is below 0, the
   accumulator after the step is the accumulator before it; the divisor has
   been shifted right by one and the stage has gone down by one. *)
C15_AccumulatorKeptOnNegativeTrial ==
  (pc = "div" /\ nsteps >= 1 /\ (Bit(next_acc, 63) = 1 \/ before.stage < 0)) =>
    /\ accumulator = before.accumulator
    /\ divisor = Shr(before.divisor, 1)
    /\ stage = before.stage - 1

-----------------------------------------------------------------------------
(* C16: the state mul_init(a, b, sa, sb) leaves.  The accumulator is
   ((add_in + bias) * 2^32) mod 2^64, where bias is b mod 2^32 if sa is set
   and a is negative as a 32-bit value (its low 31 bits only if sb is set
   too) and 0 otherwise, and add_in is a mod 2^32 if sb is set and b is
   negative (its low 31 bits only if sa is set too) and 0 otherwise; so the
   accumulator is 0 when both flags are false or both operands are
   non-negative.  The stage is 0, the multiplier a mod 2^32 and the
   multiplicand b mod 2^32. *)

\* x mod 2^31
Low31(x) ==
  [i \in Idx |-> IF i < 4 THEN x[i] ELSE IF i = 4 THEN x[4] % 128 ELSE 0]

C16_Bias(a, b, sa, sb) ==
  IF sa /\ IsNeg(signed32(a))
  THEN IF sb THEN Low31(unsigned32(b)) ELSE unsigned32(b)
  ELSE Zero

C16_AddIn(a, b, sa, sb) ==
  IF sb /\ IsNeg(signed32(b))
  THEN IF sa THEN Low31(unsigned32(a)) ELSE unsigned32(a)
  ELSE Zero

C16_MulInitState ==
  (pc = "mul" /\ nsteps = 0) =>
    /\ accumulator =
         Mod64(Shl(Add(C16_AddIn(call.a, call.b, call.sa, call.sb),
                       C16_Bias(call.a, call.b, call.sa, call.sb)), 32))
    /\ ((~call.sa /\ ~call.sb)
         \/ (~IsNeg(signed32(call.a)) /\ ~IsNeg(signed32(call.b))))
          => accumulator = Zero
    /\ stage = 0
    /\ multiplier = unsigned32(call.a)
    /\ multiplicand = unsigned32(call.b)

\* mul_init(-4, -5, True, True) has left (0x7ffffffc + 0x7ffffffb) << 32
C16_Witness ==
  /\ pc = "mul" /\ nsteps = 0
  /\ call.a = Neg(Num(4)) /\ call.b = Neg(Num(5)) /\ call.sa /\ call.sb
  /\ accumulator = Shl(Word(\Hffff, \Hfff7), 32)
  /\ multiplier = Word(\Hffff, \Hfffc)
  /\ multiplicand = Word(\Hffff, \Hfffb)

-----------------------------------------------------------------------------
(* C17: div_init does not return when the low 32 bits of the divisor are
   zero.  In every state of such a call the instance is in the first loop of
   div_init: the divisor register is 0, so its bit 31 is clear and the loop
   condition holds, and the stage has only been counted up. *)
C17_ZeroDivisorNeverReturns ==
  (call.op = "div" /\ unsigned32(call.b) = Zero) =>
    /\ pc = "norm_divisor"
    /\ divisor = Zero
    /\ Bit(divisor, 31) = 0
    /\ stage >= 0

\* div_init(5, 0) after more iterations than any nonzero divisor needs
C17_Witness ==
  /\ call.op = "div" /\ call.a = Num(5) /\ call.b = Zero
  /\ pc = "norm_divisor"
  /\ stage = MaxNorm

-----------------------------------------------------------------------------
(* C18: the loop invariant of the multiply.  With acc0 the accumulator
   mul_init(a, b, sa, sb) left, after k >= 1 mul_step calls the stage is k,
   the multiplier is (a mod 2^32) shifted right by 4k bits, the multiplicand
   is still b mod 2^32, and the accumulator is
   (((a mod 2^32) mod 16^k) * (b mod 2^32) - acc0) mod 2^64. *)

\* x mod 16^k
Low4k(x, k) ==
  [i \in Idx |-> IF i <= k \div 2 THEN x[i]
                 ELSE IF i = (k \div 2) + 1 /\ k % 2 = 1 THEN x[i] % 16
                 ELSE 0]

C18_MultiplyLoopInvariant ==
  (pc = "mul" /\ nsteps >= 1) =>
    /\ stage = nsteps
    /\ multiplier = Shr(unsigned32(call.a), 4 * nsteps)
    /\ multiplicand = unsigned32(call.b)
    /\ accumulator =
         Mod64(Sub(Times(Low4k(unsigned32(call.a), nsteps), unsigned32(call.b)),
                   init_accumulator))

\* three steps of the signed 0x89abcdef * 0xdeadbeef, begun from
\* 0x68598cde00000000: 0xdef * 0xdeadbeef - acc0
C18_Witness ==
  /\ pc = "mul" /\ nsteps = 3 /\ call.sa /\ call.sb
  /\ call.a = Word(\H89ab, \Hcdef) /\ call.b = Word(\Hdead, \Hbeef)
  /\ init_accumulator = Shl(Word(\H6859, \H8cde), 32)
  /\ multiplier = Word(\H8, \H9abc)
  /\ accumulator = Add(Shl(Word(\H97a6, \H7f40), 32), Word(\Hb6e7, \H6421))

-----------------------------------------------------------------------------
(* C19: mul_step is idempotent once done.  Every mul_step call made after a
   call has returned true returns true too; it finds the multiplier 0 and
   leaves it 0, leaves the accumulator as it found it, and only counts the
   stage up by one. *)
C19_StepsAfterDoneKeepProduct ==
  (pc = "mul" /\ first_done # 0 /\ nsteps > first_done) =>
    /\ ret
    /\ before.multiplier = Zero
    /\ multiplier = Zero
    /\ accumulator = before.accumulator
    /\ multiplicand = before.multiplicand
    /\ stage = before.stage + 1

\* multiply(4, 5) is done at its first step; two more steps keep 20
C19_Witness ==
  /\ pc = "mul" /\ ~call.sa /\ ~call.sb
  /\ call.a = Num(4) /\ call.b = Num(5)
  /\ first_done = 1 /\ nsteps = first_done + MaxOver
  /\ ret
  /\ accumulator = Num(20)
  /\ stage = nsteps

-----------------------------------------------------------------------------
(* C20: the state div_init leaves for nonzero a and b (mod 2^32).  With nb
   and na the numbers of leading zero bits of b and a as 32-bit values, the
   divisor is b * 2^nb, below 2^32 with bit 31 set; the accumulator is
   a * 2^(32 + na), below 2^64 with bit 63 set; and the stage is nb - na,
   negative exactly when a has more leading zeros than b. *)

RECURSIVE LeadingZerosFrom(_, _)
LeadingZerosFrom(x, i) ==
  IF i < 0 \/ Bit(x, i) = 1 THEN 0 ELSE 1 + LeadingZerosFrom(x, i - 1)

\* the number of leading zero bits of a 32-bit value
LeadingZeros(x) == LeadingZerosFrom(x, 31)

C20_NormalisedOperands ==
  (pc = "div" /\ nsteps = 0
     /\ unsigned32(call.a) # Zero /\ unsigned32(call.b) # Zero) =>
    LET a == unsigned32(call.a)
        b == unsigned32(call.b)
        na == LeadingZeros(a)
        nb == LeadingZeros(b)
    IN  /\ divisor = Times(b, Shl(Num(1), nb))
        /\ Less(divisor, Shl(Num(1), 32))
        /\ Bit(divisor, 31) = 1
        /\ accumulator = Times(a, Shl(Num(1), 32 + na))
        /\ Less(accumulator, Shl(Num(1), 64))
        /\ Bit(accumulator, 63) = 1
        /\ stage = nb - na
        /\ stage < 0 <=> na > nb

\* div_init(4, 0xdeadbeef): 29 leading zeros against none
C20_Witness ==
  /\ pc = "div" /\ nsteps = 0
  /\ call.a = Num(4) /\ call.b = Word(\Hdead, \Hbeef)
  /\ divisor = Word(\Hdead, \Hbeef)
  /\ accumulator = Shl(Num(1), 63)
  /\ stage = -29

====
